---------------------------- MODULE Spec2Model ----------------------------
(***************************************************************************)
(* Model of mealie/routes/_base/mixins.py: HttpRepo, the CRUD helper that  *)
(* forwards create/get/update/patch/delete to a repository and turns       *)
(* repository failures into HTTP errors.                                   *)
(*                                                                         *)
(* Python strings are modelled as sequences of one-character strings, so   *)
(* that str.replace, str.split, str.splitlines and str.capitalize are      *)
(* computed character by character, as the code computes them.             *)
(***************************************************************************)
EXTENDS Integers, Sequences, FiniteSets, TLC

(***************************************************************************)
(* Bounds of the model.                                                    *)
(***************************************************************************)
\* Row ids are 1..MaxId.
MaxId == 2

(***************************************************************************)
(* Program constants.                                                      *)
(***************************************************************************)
HTTP_400_BAD_REQUEST == 400
HTTP_404_NOT_FOUND == 404

(***************************************************************************)
(* String literals of the code and of the two drivers' error formats.      *)
(***************************************************************************)
DefaultMessageText == <<"A","n"," ","u","n","e","x","p","e","c","t","e","d"," ","e","r","r","o","r"," ","o","c","c","u","r","r","e","d",".">>
NotFoundText == <<"N","o","t"," ","f","o","u","n","d",".">>
DetailKeyPrefix == <<"D","E","T","A","I","L",":"," "," ","K","e","y"," ">>
AlreadyExistsSuffix == <<" ","a","l","r","e","a","d","y"," ","e","x","i","s","t","s",".">>
UniqueFailedPrefix == <<"U","N","I","Q","U","E"," ","c","o","n","s","t","r","a","i","n","t"," ","f","a","i","l","e","d",":"," ">>
UnavailableSuffix == <<" ","i","s"," ","u","n","a","v","a","i","l","a","b","l","e",".">>
DeletingPrefix == <<"D","e","l","e","t","i","n","g"," ","i","t","e","m"," ","w","i","t","h"," ","i","d"," ">>
PgErrorLine == <<"E","R","R","O","R",":"," "," ","d","u","p","l","i","c","a","t","e"," ","k","e","y"," ","v","a","l","u","e"," ","v","i","o","l","a","t","e","s"," ","u","n","i","q","u","e"," ","c","o","n","s","t","r","a","i","n","t">>
PgNotNullLine == <<"E","R","R","O","R",":"," "," ","n","u","l","l"," ","v","a","l","u","e"," ","i","n"," ","c","o","l","u","m","n"," ","v","i","o","l","a","t","e","s"," ","n","o","t","-","n","u","l","l"," ","c","o","n","s","t","r","a","i","n","t">>
NotNullFailedPrefix == <<"N","O","T"," ","N","U","L","L"," ","c","o","n","s","t","r","a","i","n","t"," ","f","a","i","l","e","d",":"," ">>
InsertStatement == <<"I","N","S","E","R","T"," ","I","N","T","O"," ","r","e","c","i","p","e","s"," ","(","i","d",","," ","n","a","m","e",","," ","s","l","u","g",")"," ","V","A","L","U","E","S"," ","(","?",","," ","?",","," ","?",")">>
UpdateStatement == <<"U","P","D","A","T","E"," ","r","e","c","i","p","e","s"," ","S","E","T"," ","n","a","m","e","=","?",","," ","s","l","u","g","=","?"," ","W","H","E","R","E"," ","r","e","c","i","p","e","s",".","i","d"," ","="," ","?">>
TablePrefix == <<"r","e","c","i","p","e","s",".">>
LowerCase == <<"a","b","c","d","e","f","g","h","i","j","k","l","m","n","o","p","q","r","s","t","u","v","w","x","y","z">>
UpperCase == <<"A","B","C","D","E","F","G","H","I","J","K","L","M","N","O","P","Q","R","S","T","U","V","W","X","Y","Z">>
Digits == <<"0","1","2","3","4","5","6","7","8","9">>
NL == <<"\n">>
SP == <<" ">>

\* The text of a column name.
ColumnText(f) ==
    CASE f = "id" -> <<"i","d">>
      [] f = "name" -> <<"n","a","m","e">>
      [] f = "slug" -> <<"s","l","u","g">>

(***************************************************************************)
(* Python's str and list methods.                                          *)
(***************************************************************************)
Min(S) == CHOOSE x \in S : \A y \in S : x <= y

\* The least member of a set of positions; 0 when there is none.
FirstOf(C) == IF C = {} THEN 0 ELSE Min(C)

\* s.find(sub) from position i (1-based); 0 when sub does not occur.
Find(s, sub, i) ==
    FirstOf({j \in i..(Len(s) - Len(sub) + 1) :
                s[j] = sub[1] /\ SubSeq(s, j, j + Len(sub) - 1) = sub})

RECURSIVE Replace(_, _, _)
\* s.replace(old, new), j being the first occurrence of old in s.
ReplaceFrom(s, old, new, j) ==
    IF j = 0 THEN s
    ELSE SubSeq(s, 1, j - 1) \o new \o Replace(SubSeq(s, j + Len(old), Len(s)), old, new)

\* s.replace(old, new): every non-overlapping occurrence, left to right.
Replace(s, old, new) == ReplaceFrom(s, old, new, Find(s, old, 1))

RECURSIVE Split(_, _)
\* s.split(sep), j being the first occurrence of sep in s.
SplitFrom(s, sep, j) ==
    IF j = 0 THEN <<s>>
    ELSE <<SubSeq(s, 1, j - 1)>> \o Split(SubSeq(s, j + Len(sep), Len(s)), sep)

\* s.split(sep): the list of the parts between the occurrences of sep.
Split(s, sep) == SplitFrom(s, sep, Find(s, sep, 1))

\* A final line break opens no empty line.
WithoutEmptyLast(parts) ==
    IF parts[Len(parts)] = <<>> THEN SubSeq(parts, 1, Len(parts) - 1) ELSE parts

\* s.splitlines().
SplitLines(s) == WithoutEmptyLast(Split(s, NL))

ToUpper(c) ==
    IF \E i \in DOMAIN LowerCase : LowerCase[i] = c
    THEN UpperCase[CHOOSE i \in DOMAIN LowerCase : LowerCase[i] = c] ELSE c

ToLower(c) ==
    IF \E i \in DOMAIN UpperCase : UpperCase[i] = c
    THEN LowerCase[CHOOSE i \in DOMAIN UpperCase : UpperCase[i] = c] ELSE c

\* s.capitalize(): the first character upper case, the others lower case.
Capitalize(s) ==
    [i \in DOMAIN s |-> IF i = 1 THEN ToUpper(s[i]) ELSE ToLower(s[i])]

\* list.index(x): the first position of x (1-based); 0 stands for ValueError.
ListIndex(list, x) == FirstOf({i \in DOMAIN list : list[i] = x})

\* str(n) of a row id.
IntText(n) == <<Digits[n + 1]>>

(***************************************************************************)
(* Results of a Python evaluation: a value, or a raised exception.         *)
(***************************************************************************)
Value(v) == [ok |-> TRUE, val |-> v]
Raises(cls) == [ok |-> FALSE, cls |-> cls]

(***************************************************************************)
(* get_exception_message, lines 50-70.  An exception ext is a record       *)
(*   cls       its class ("IntegrityError" is sqlalchemy.exc's)            *)
(*   orig      the class of the driver's error, ext.orig                   *)
(*   text      str(ext.orig), or the message of a plain exception          *)
(*   pgerror   ext.orig.pgerror                                            *)
(*   statement ext.statement                                               *)
(*   params    ext.params                                                  *)
(***************************************************************************)
\* Line 54: the second line of pgerror.
SecondLine(lines) ==
    IF Len(lines) < 2 THEN Raises("IndexError") ELSE Value(lines[2])

\* Line 55.
StripDetail(msg) ==
    Replace(Replace(msg, DetailKeyPrefix, <<>>), AlreadyExistsSuffix, <<>>)

\* Line 56: the unpacking of the two parts into key and value.
Unpack(kv) ==
    IF Len(kv) < 2 \/ Len(kv) > 2 THEN Raises("ValueError") ELSE Value(<<kv[1], kv[2]>>)

\* Line 56.
SplitKeyValue(msg) ==
    Unpack(Split(Replace(Replace(msg, <<"(">>, <<>>), <<")">>, <<>>), <<"=">>))

\* Lines 54-56, line being the result of line 54.
PostgresFromLine(line) ==
    IF line.ok THEN SplitKeyValue(StripDetail(line.val)) ELSE line

\* Lines 54-56: the PostgreSQL branch; yields <<key, value>>.
PostgresKeyValue(ext) == PostgresFromLine(SecondLine(SplitLines(ext.pgerror)))

\* The second element of a list, as the subscripts [1] of lines 59 and 60 take it.
Second(parts) ==
    IF Len(parts) < 2 THEN Raises("IndexError") ELSE Value(parts[2])

\* Line 59, after is the result of ext.statement.split("(")[1].
ColumnList(after) ==
    IF after.ok THEN Value(Split(Split(after.val, <<")">>)[1], <<",", " ">>)) ELSE after

\* Line 60, after is the result of str(ext.orig).split(...)[1].
FailedColumn(after) ==
    IF after.ok THEN Second(Split(after.val, <<".">>)) ELSE after

\* Line 62.
Param(key, params, param_index) ==
    IF param_index = 0 THEN Raises("ValueError")
    ELSE IF param_index > Len(params) THEN Raises("IndexError")
    ELSE Value(<<key, params[param_index]>>)

\* Lines 59-62, keys and key being the results of lines 59 and 60.
SqliteFromKeys(keys, key, params) ==
    IF ~keys.ok THEN keys
    ELSE IF ~key.ok THEN key
    ELSE Param(key.val, params, ListIndex(keys.val, key.val))

\* Lines 59-62: the SQLite branch; yields <<key, value>>.
SqliteKeyValue(ext) ==
    SqliteFromKeys(ColumnList(Second(Split(ext.statement, <<"(">>))),
                   FailedColumn(Second(Split(ext.text, UniqueFailedPrefix))),
                   ext.params)

\* Lines 53-62.  The classes of the two isinstance tests are disjoint, so at
\* most one branch binds key and value; when neither does, the f-string of
\* line 64 raises UnboundLocalError.
KeyValue(ext) ==
    IF ext.orig = "UniqueViolation" THEN PostgresKeyValue(ext)
    ELSE IF ext.orig = "sqlite3.IntegrityError" THEN SqliteKeyValue(ext)
    ELSE Raises("UnboundLocalError")

\* Line 64: the f-string.
UnavailableMessage(key, value) ==
    Capitalize(key) \o SP \o value \o UnavailableSuffix

\* Line 64, kv being what lines 53-62 bound.
MessageOf(kv) ==
    IF kv.ok THEN Value(UnavailableMessage(kv.val[1], kv.val[2])) ELSE kv

\* The messages of an exception-to-message function given at construction.
RegisteredMessage(cls) ==
    CASE cls = "ValueError" -> <<"I","n","v","a","l","i","d"," ","v","a","l","u","e",".">>
      [] cls = "NoResultFound" -> <<"N","o"," ","s","u","c","h"," ","r","o","w",".">>
      [] OTHER -> <<"U","n","k","n","o","w","n",".">>

\* Lines 50-70.  slf is the record of the object's fields.
get_exception_message(slf, ext) ==
    IF ext.cls = "IntegrityError" THEN MessageOf(KeyValue(ext))
    ELSE IF slf.exception_msgs THEN Value(RegisteredMessage(ext.cls))
    ELSE Value(slf.default_message)

(***************************************************************************)
(* Values of the model.                                                    *)
(***************************************************************************)
Ids == 1..MaxId
Fields == {"name", "slug"}
Names == {<<"S","o","u","p">>, <<"S","t","e","w"," ","(","h","o","t",")">>}
Slugs == {<<"s","o","u","p">>, <<"a","=","b">>}
\* The default of every field of the update model U.
FieldDefault(f) == <<>>

\* A stored row, as the repository returns it (R).
Item(i, n, s) == [id |-> i, name |-> n, slug |-> s]
\* Python's None, and an item, as the value of "R | None".
None == [some |-> FALSE, item |-> Item(0, <<>>, <<>>)]
Some(it) == [some |-> TRUE, item |-> it]
\* An optional text (ErrorResponse's exception field).
NoText == [some |-> FALSE, val |-> <<>>]
SomeText(t) == [some |-> TRUE, val |-> t]

\* A pydantic model instance (C or U): its fields and model_fields_set.
Model(set, n, s) == [fields_set |-> set, name |-> n, slug |-> s]
\* Create and update data: every field given.
FullData == {Model(Fields, n, s) : n \in Names, s \in Slugs}
\* Patch data: each field unset (so at its default), set to its default, or
\* set to a value.
PatchData ==
    {d \in [fields_set : SUBSET Fields,
            name : Names \cup {FieldDefault("name")},
            slug : Slugs \cup {FieldDefault("slug")}] :
        \A f \in Fields \ d.fields_set : d[f] = FieldDefault(f)}

\* pydantic's BaseModel.model_dump(exclude_unset, exclude_defaults).
ModelDump(data, exclude_unset, exclude_defaults) ==
    LET keep == {f \in Fields :
                    /\ exclude_unset => f \in data.fields_set
                    /\ exclude_defaults => data[f] # FieldDefault(f)}
    IN  [f \in keep |-> data[f]]

\* patch_one's mapping had it excluded only the unset fields.
PatchPayload_KeepDefaults(data) == ModelDump(data, TRUE, FALSE)

\* Line 131: the mapping patch_one hands to repo.patch.
PatchPayload(data) == ModelDump(data, TRUE, TRUE)

(***************************************************************************)
(* Exceptions.                                                             *)
(***************************************************************************)
Exc(cls, orig, text, pgerror, statement, params) ==
    [cls |-> cls, orig |-> orig, text |-> text, pgerror |-> pgerror,
     statement |-> statement, params |-> params]
NoExc == Exc("", "", <<>>, <<>>, <<>>, <<>>)
PlainExc(cls, text) == Exc(cls, "", text, <<>>, <<>>, <<>>)

\* str(ex).
StrEx(ex) ==
    IF ex.cls = "IntegrityError" THEN ex.text \o NL \o ex.statement ELSE ex.text

\* The IntegrityError of a uniqueness violation on column f with value v, as
\* psycopg2 (pgerror's DETAIL line) and as sqlite3 (the qualified column) report it.
UniqueViolationError(backend, f, v, statement, params) ==
    IF backend = "postgresql"
    THEN LET pgerror == PgErrorLine \o NL \o DetailKeyPrefix \o <<"(">> \o ColumnText(f)
                        \o <<")", "=", "(">> \o v \o <<")">> \o AlreadyExistsSuffix \o NL
         IN  Exc("IntegrityError", "UniqueViolation", pgerror, pgerror, statement, params)
    ELSE Exc("IntegrityError", "sqlite3.IntegrityError",
             UniqueFailedPrefix \o TablePrefix \o ColumnText(f), <<>>, statement, params)

\* The IntegrityError of another constraint (here NOT NULL) of the same drivers.
NotNullError(backend, f, statement, params) ==
    IF backend = "postgresql"
    THEN Exc("IntegrityError", "NotNullViolation", PgNotNullLine \o NL,
             PgNotNullLine \o NL, statement, params)
    ELSE Exc("IntegrityError", "sqlite3.IntegrityError",
             NotNullFailedPrefix \o TablePrefix \o ColumnText(f), <<>>, statement, params)


(***************************************************************************)
(* The repository (RepositoryGeneric) over a table with unique columns     *)
(* name and slug.  A call yields one of a set of results: a returned       *)
(* value or a raised exception, and the rows after the call.               *)
(***************************************************************************)
Returns(v, rows) == [raised |-> FALSE, val |-> v, ex |-> NoExc, rows |-> rows]
Fails(ex, rows) == [raised |-> TRUE, val |-> None, ex |-> ex, rows |-> rows]
EmptyRows == [j \in {} |-> None.item]
NoResult == Returns(None, EmptyRows)

\* The unique columns on which row it collides with a row other than self_id.
Conflicts(rows, self_id, it) ==
    {f \in Fields : \E j \in DOMAIN rows \ {self_id} : rows[j][f] = it[f]}

\* What a write of row it by statement may end in, besides success.
WriteFailures(backend, rows, self_id, it, statement, params) ==
    {Fails(UniqueViolationError(backend, f, it[f], statement, params), rows) :
        f \in Conflicts(rows, self_id, it)}
    \cup {Fails(NotNullError(backend, "name", statement, params), rows),
          Fails(PlainExc("ValueError", <<"b","a","d">>), rows)}

\* A successful write returns the row, or nothing.
WriteSuccess(it, rows) == {Returns(Some(it), rows), Returns(None, rows)}

\* repo.get_one(item_id, key): the row whose key column (the primary key
\* when key is None) holds item_id, or None; the query itself may fail.
RepoGetOne(rows, value, key) ==
    LET hits == {j \in DOMAIN rows : rows[j][IF key = "None" THEN "id" ELSE key] = value}
    IN  {IF hits = {} THEN Returns(None, rows) ELSE Returns(Some(rows[Min(hits)]), rows),
         Fails(PlainExc("OperationalError", <<"d","o","w","n">>), rows)}

\* repo.create(data).
RepoCreate(backend, rows, data) ==
    LET free == Ids \ DOMAIN rows
        i == IF free = {} THEN MaxId + 1 ELSE Min(free)
        it == Item(i, data.name, data.slug)
        params == <<IntText(i), it.name, it.slug>>
    IN  WriteFailures(backend, rows, i, it, InsertStatement, params)
        \cup IF free # {} /\ Conflicts(rows, i, it) = {}
             THEN WriteSuccess(it, [j \in DOMAIN rows \cup {i} |-> IF j = i THEN it ELSE rows[j]])
             ELSE {}

\* The row item_id after a write of the mapping fields.
Merged(rows, item_id, fields) ==
    Item(item_id,
         IF "name" \in DOMAIN fields THEN fields["name"] ELSE rows[item_id].name,
         IF "slug" \in DOMAIN fields THEN fields["slug"] ELSE rows[item_id].slug)

\* repo.update(item_id, data) and repo.patch(item_id, fields): both write
\* the mapping fields to the row item_id.
RepoWrite(backend, rows, item_id, fields) ==
    IF item_id \notin DOMAIN rows
    THEN {Fails(PlainExc("NoResultFound", <<"n","o"," ","r","o","w">>), rows)}
    ELSE LET it == Merged(rows, item_id, fields)
             params == <<it.name, it.slug, IntText(item_id)>>
         IN  WriteFailures(backend, rows, item_id, it, UpdateStatement, params)
             \cup IF Conflicts(rows, item_id, it) = {}
                  THEN WriteSuccess(it, [rows EXCEPT ![item_id] = it])
                  ELSE {}

\* repo.delete(item_id).
RepoDelete(backend, rows, item_id) ==
    IF item_id \notin DOMAIN rows
    THEN {Fails(PlainExc("NoResultFound", <<"n","o"," ","r","o","w">>), rows)}
    ELSE WriteSuccess(rows[item_id], [j \in DOMAIN rows \ {item_id} |-> rows[j]])
         \cup {Fails(PlainExc("ValueError", <<"b","a","d">>), rows)}


(***************************************************************************)
(* The state.                                                              *)
(***************************************************************************)
VARIABLES
    ctor,      \* the arguments HttpRepo was constructed with
    self,      \* the object's fields: exception_msgs, default_message
    backend,   \* the database behind the repository
    rows,      \* the rows of the repository's table
    call,      \* the operation last called, and its arguments
    trace,     \* what that call did, in order: repository calls, logger
               \* calls, the rollback, and how it ended
    outcome    \* how that call ended

vars == <<ctor, self, backend, rows, call, trace, outcome>>

\* How a call ends: a returned value, an HTTPException, or another exception
\* leaving the method.
NoDetail == [message |-> <<>>, error |-> FALSE, exception |-> NoText]
Returned(v) ==
    [kind |-> "return", value |-> v, status |-> 0, detail |-> NoDetail, cls |-> ""]
HTTPException(status, detail) ==
    [kind |-> "HTTPException", value |-> None, status |-> status, detail |-> detail,
     cls |-> "HTTPException"]
Escaped(cls) ==
    [kind |-> "exception", value |-> None, status |-> 0, detail |-> NoDetail, cls |-> cls]
NotCalled ==
    [kind |-> "none", value |-> None, status |-> 0, detail |-> NoDetail, cls |-> ""]

\* ErrorResponse.respond(message, exception).
Respond(message, exception) ==
    [message |-> message, error |-> TRUE, exception |-> exception]

\* One step of a call: what was called, with what, and the repository's result.
Ev(ev, arg, res) == [ev |-> ev, arg |-> arg, res |-> res]
Return(v) == Ev("return", Returned(v), NoResult)
Raise(out) == Ev("raise", out, NoResult)
\* Lines 98-101, 109-112, 125-128.
NotFound == HTTPException(HTTP_404_NOT_FOUND, Respond(NotFoundText, NoText))

\* Lines 36-48.
init(args) ==
    [exception_msgs |-> args.exception_msgs,
     default_message |->
        IF args.default_message.some /\ args.default_message.val # <<>>
        THEN args.default_message.val ELSE DefaultMessageText]

\* Lines 80-83, msg being the result of line 78.
RaiseFor(msg, ex) ==
    IF msg.ok
    THEN Raise(HTTPException(HTTP_400_BAD_REQUEST, Respond(msg.val, SomeText(StrEx(ex)))))
    ELSE Raise(Escaped(msg.cls))

\* handle_exception had it left the session as the failed write left it.
handle_exception_NoRollback(slf, ex) ==
    <<Ev("logger.exception", ex, NoResult),
      Ev("get_exception_message", ex, NoResult),
      RaiseFor(get_exception_message(slf, ex), ex)>>

\* Lines 72-83.
handle_exception(slf, ex) ==
    <<Ev("logger.exception", ex, NoResult),
      Ev("session.rollback", <<>>, NoResult),
      Ev("get_exception_message", ex, NoResult),
      RaiseFor(get_exception_message(slf, ex), ex)>>

\* Lines 85-92; r is what repo.create does.
create_one(slf, data, r) ==
    <<Ev("repo.create", data, r)>>
    \o IF r.raised THEN handle_exception(slf, r.ex) ELSE <<Return(r.val)>>

\* get_one had it handed on whatever the lookup yields.
get_one_ReturnsLookup(slf, item_id, key, l) ==
    <<Ev("repo.get_one", item_id, l)>>
    \o IF l.raised THEN <<Raise(Escaped(l.ex.cls))>> ELSE <<Return(l.val)>>

\* Lines 94-103; l is what repo.get_one does.
get_one(slf, item_id, key, l) ==
    <<Ev("repo.get_one", item_id, l)>>
    \o IF l.raised THEN <<Raise(Escaped(l.ex.cls))>>
       ELSE IF ~l.val.some THEN <<Raise(NotFound)>>
       ELSE <<Return(l.val)>>

\* update_one had it not looked the record up before writing.
update_one_NoExistenceCheck(slf, data, item_id, l, r) ==
    <<Ev("repo.get_one", item_id, l)>>
    \o IF l.raised THEN <<Raise(Escaped(l.ex.cls))>>
       ELSE <<Ev("repo.update", data, r)>>
            \o IF r.raised THEN handle_exception(slf, r.ex) ELSE <<Return(r.val)>>

\* Lines 105-119; l is what repo.get_one does, r what repo.update does.
update_one(slf, data, item_id, l, r) ==
    <<Ev("repo.get_one", item_id, l)>>
    \o IF l.raised THEN <<Raise(Escaped(l.ex.cls))>>
       ELSE IF ~l.val.some THEN <<Raise(NotFound)>>
       ELSE <<Ev("repo.update", data, r)>>
            \o IF r.raised THEN handle_exception(slf, r.ex) ELSE <<Return(r.val)>>

\* Lines 121-135; l is what repo.get_one does, r what repo.patch does.
patch_one(slf, data, item_id, l, r) ==
    <<Ev("repo.get_one", item_id, l)>>
    \o IF l.raised THEN <<Raise(Escaped(l.ex.cls))>>
       ELSE IF ~l.val.some THEN <<Raise(NotFound)>>
       ELSE <<Ev("repo.patch", PatchPayload(data), r)>>
            \o IF r.raised THEN handle_exception(slf, r.ex) ELSE <<Return(r.val)>>

\* delete_one had it logged the deletion before deleting.
delete_one_LogsFirst(slf, item_id, r) ==
    <<Ev("logger.info", DeletingPrefix \o IntText(item_id), NoResult),
      Ev("repo.delete", item_id, r)>>
    \o IF r.raised THEN handle_exception(slf, r.ex) ELSE <<Return(r.val)>>

\* Lines 137-145; r is what repo.delete does.
delete_one(slf, item_id, r) ==
    <<Ev("repo.delete", item_id, r)>>
    \o IF r.raised THEN handle_exception(slf, r.ex)
       ELSE <<Ev("logger.info", DeletingPrefix \o IntText(item_id), NoResult),
              Return(r.val)>>

(***************************************************************************)
(* The actions: one per operation of HttpRepo.                             *)
(***************************************************************************)
Writes == {"repo.create", "repo.update", "repo.patch", "repo.delete"}
Last(s) == s[Len(s)]

\* The rows the write at position i of t left; rows when t has no write.
RowsAt(t, i) == IF i = 0 THEN rows ELSE t[i].res.rows

\* The rows after a call that did t: those its write left, if it wrote.
RowsAfter(t) == RowsAt(t, FirstOf({i \in DOMAIN t : t[i].ev \in Writes}))

\* No call is under way.
Idle == call.op = "none"

Finish(c, t) ==
    /\ call' = c
    /\ trace' = t
    /\ outcome' = Last(trace').arg
    /\ rows' = RowsAfter(trace')
    /\ UNCHANGED <<ctor, self, backend>>

ConstructorArgs ==
    [exception_msgs : BOOLEAN,
     default_message : {NoText, SomeText(<<>>), SomeText(<<"O","o","p","s",".">>)}]

Init ==
    /\ ctor \in ConstructorArgs
    /\ self = init(ctor)
    /\ backend \in {"postgresql", "sqlite"}
    /\ rows = EmptyRows
    /\ call = [op |-> "none"]
    /\ trace = <<>>
    /\ outcome = NotCalled

CreateOne ==
    /\ Idle
    /\ \E data \in FullData :
        \E r \in RepoCreate(backend, rows, data) :
            Finish([op |-> "create_one", data |-> data], create_one(self, data, r))

GetOne ==
    /\ Idle
    /\ \E key \in {"None", "slug"} :
        \E item_id \in IF key = "None" THEN Ids ELSE Slugs :
            \E l \in RepoGetOne(rows, item_id, key) :
                Finish([op |-> "get_one", item_id |-> item_id, key |-> key],
                       get_one(self, item_id, key, l))

UpdateOne ==
    /\ Idle
    /\ \E data \in FullData, item_id \in Ids :
        \E l \in RepoGetOne(rows, item_id, "None") :
            \E r \in RepoWrite(backend, rows, item_id, ModelDump(data, FALSE, FALSE)) :
                Finish([op |-> "update_one", data |-> data, item_id |-> item_id],
                       update_one(self, data, item_id, l, r))

PatchOne ==
    /\ Idle
    /\ \E data \in PatchData, item_id \in Ids :
        \E l \in RepoGetOne(rows, item_id, "None") :
            \E r \in RepoWrite(backend, rows, item_id, PatchPayload(data)) :
                Finish([op |-> "patch_one", data |-> data, item_id |-> item_id],
                       patch_one(self, data, item_id, l, r))

DeleteOne ==
    /\ Idle
    /\ \E item_id \in Ids :
        \E r \in RepoDelete(backend, rows, item_id) :
            Finish([op |-> "delete_one", item_id |-> item_id], delete_one(self, item_id, r))

\* The request ends: its handler has taken the outcome of the call, and the
\* next request's call starts afresh (each call is one synchronous pass).
EndRequest ==
    /\ call.op # "none"
    /\ call' = [op |-> "none"]
    /\ trace' = <<>>
    /\ outcome' = NotCalled
    /\ UNCHANGED <<ctor, self, backend, rows>>

Next == CreateOne \/ GetOne \/ UpdateOne \/ PatchOne \/ DeleteOne \/ EndRequest

Spec == Init /\ [][Next]_vars

(***************************************************************************)
(* What the properties read off a call's trace.                            *)
(***************************************************************************)
Operations == {"create_one", "get_one", "update_one", "patch_one", "delete_one"}

\* How many times the call did ev.
Count(ev) == Cardinality({i \in DOMAIN trace : trace[i].ev = ev})
\* Where the call first did ev; 0 when it did not.
Pos(ev) == FirstOf({i \in DOMAIN trace : trace[i].ev = ev})
\* Where the call made its repository write; 0 when it made none.
WritePos == FirstOf({i \in DOMAIN trace : trace[i].ev \in Writes})
\* The repository write of the call raised.
WriteRaised == WritePos # 0 /\ trace[WritePos].res.raised
\* The call's first step was a lookup, which yielded no record.
LookupEmpty ==
    /\ trace # <<>>
    /\ trace[1].ev = "repo.get_one"
    /\ ~trace[1].res.raised
    /\ ~trace[1].res.val.some
\* The call's first step was a lookup, which yielded a record.
LookupFound ==
    /\ trace # <<>>
    /\ trace[1].ev = "repo.get_one"
    /\ ~trace[1].res.raised
    /\ trace[1].res.val.some
\* The call ended with the 404 of a missing record.
EndedNotFound ==
    /\ outcome.kind = "HTTPException"
    /\ outcome.status = 404
    /\ outcome.detail.message = <<"N","o","t"," ","f","o","u","n","d",".">>

(***************************************************************************)
(* C1.  Each of the five operations, whatever the repository does (returns *)
(* an item, returns nothing, raises), ends either by returning a non-null  *)
(* result or with an HTTP error of status 404 or 400; it never returns     *)
(* null.                                                                   *)
(***************************************************************************)
C1_ResultOrHttpError ==
    call.op \in Operations =>
        \/ outcome.kind = "return" /\ outcome.value.some
        \/ outcome.kind = "HTTPException" /\ outcome.status \in {404, 400}

(***************************************************************************)
(* C2.  Whenever the repository write of create_one, update_one, patch_one *)
(* or delete_one raises, session.rollback() is called exactly once during  *)
(* the call, and before any HTTP error is raised to the caller.            *)
(***************************************************************************)
C2_RollbackOnceBeforeError ==
    (call.op \in Operations \ {"get_one"} /\ WriteRaised) =>
        /\ Count("session.rollback") = 1
        /\ WritePos < Pos("session.rollback")
        /\ \A i \in DOMAIN trace :
              (trace[i].ev = "raise" /\ trace[i].arg.kind = "HTTPException")
                  => Pos("session.rollback") < i

C2_Witness ==
    /\ call.op = "update_one"
    /\ WriteRaised
    /\ outcome.kind = "HTTPException"
    /\ outcome.status = 400

(***************************************************************************)
(* C3.  When the lookup of update_one or patch_one yields no record, the   *)
(* call fails with HTTP 404, message "Not found.", and has called neither  *)
(* repo.update nor repo.patch.                                             *)
(***************************************************************************)
C3_NotFoundBeforeWrite ==
    (call.op \in {"update_one", "patch_one"} /\ LookupEmpty) =>
        /\ EndedNotFound
        /\ Count("repo.update") = 0
        /\ Count("repo.patch") = 0

C3_Witness ==
    /\ call.op = "patch_one"
    /\ LookupEmpty
    /\ call.item_id \notin DOMAIN rows
    /\ call.data.fields_set # {}
    /\ EndedNotFound

(***************************************************************************)
(* C4.  Every exception the storage layer raises during an operation (the  *)
(* lookups included, and an IntegrityError of another constraint included) *)
(* is turned into an HTTP error: no storage exception, and no exception of *)
(* the translation itself, leaves the operation.                           *)
(***************************************************************************)
C4_NoExceptionEscapes ==
    call.op \in Operations => outcome.kind # "exception"

(***************************************************************************)
(* C5.  When the repository write raises ex, the call goes on with exactly *)
(* logger.exception, then session.rollback, then the computation of the    *)
(* message, then an HTTP 400 whose body carries the message and str(ex);   *)
(* it calls the repository no more and returns nothing.                    *)
(***************************************************************************)
C5_HandleExceptionOrder ==
    (call.op \in Operations \ {"get_one"} /\ WriteRaised) =>
        /\ Len(trace) = WritePos + 4
        /\ trace[WritePos + 1].ev = "logger.exception"
        /\ trace[WritePos + 2].ev = "session.rollback"
        /\ trace[WritePos + 3].ev = "get_exception_message"
        /\ trace[WritePos + 4].ev = "raise"
        /\ outcome.kind = "HTTPException"
        /\ outcome.status = 400
        /\ outcome.detail.exception = SomeText(StrEx(trace[WritePos].res.ex))

(***************************************************************************)
(* C6.  The message of an exception is chosen by strict priority: a        *)
(* uniqueness violation gives "<Field> <value> is unavailable." whatever   *)
(* mapping was given; otherwise a mapping given at construction gives its  *)
(* value for the exception's type; otherwise the message is the            *)
(* default_message given at construction, or "An unexpected error          *)
(* occurred." when none was given.                                         *)
(***************************************************************************)
StartsWith(s, prefix) ==
    Len(s) >= Len(prefix) /\ SubSeq(s, 1, Len(prefix)) = prefix
EndsWith(s, suffix) ==
    Len(s) >= Len(suffix) /\ SubSeq(s, Len(s) - Len(suffix) + 1, Len(s)) = suffix

\* ex reports a uniqueness violation, in either driver's way.
IsUniquenessViolation(ex) ==
    /\ ex.cls = "IntegrityError"
    /\ \/ ex.orig = "UniqueViolation"
       \/ /\ ex.orig = "sqlite3.IntegrityError"
          /\ StartsWith(ex.text, <<"U","N","I","Q","U","E"," ","c","o","n","s","t","r","a","i","n","t"," ","f","a","i","l","e","d",":"," ">>)

\* The message the claim gives an exception that is no uniqueness violation.
C6_Fallback(ex) ==
    IF ctor.exception_msgs THEN RegisteredMessage(ex.cls)
    ELSE IF ctor.default_message.some THEN ctor.default_message.val
    ELSE <<"A","n"," ","u","n","e","x","p","e","c","t","e","d"," ","e","r","r","o","r"," ","o","c","c","u","r","r","e","d",".">>

C6_Expected(ex) ==
    /\ outcome.kind = "HTTPException"
    /\ IF IsUniquenessViolation(ex)
       THEN EndsWith(outcome.detail.message,
                     <<" ","i","s"," ","u","n","a","v","a","i","l","a","b","l","e",".">>)
       ELSE outcome.detail.message = C6_Fallback(ex)

C6_MessagePriority ==
    (call.op \in Operations \ {"get_one"} /\ WriteRaised) =>
        C6_Expected(trace[WritePos].res.ex)

(***************************************************************************)
(* C7.  A uniqueness violation on field f with value v during create gives *)
(* the message "<f capitalized> <v> is unavailable.", the same whether the *)
(* violation is reported in PostgreSQL's format or in SQLite's.            *)
(***************************************************************************)
FieldTitle(f) ==
    IF f = "name" THEN <<"N","a","m","e">> ELSE <<"S","l","u","g">>

\* The create of the call failed on the unique column f.
CreateViolated(f) ==
    /\ call.op = "create_one"
    /\ WriteRaised
    /\ trace[1].res.ex =
          UniqueViolationError(backend, f, call.data[f], InsertStatement,
                               trace[1].res.ex.params)

C7_UnavailableMessage ==
    \A f \in Fields :
        CreateViolated(f) =>
            /\ outcome.kind = "HTTPException"
            /\ outcome.detail.message =
                  FieldTitle(f) \o <<" ">> \o call.data[f]
                  \o <<" ","i","s"," ","u","n","a","v","a","i","l","a","b","l","e",".">>

(***************************************************************************)
(* C8.  The mapping patch_one hands to repo.patch holds a field only if    *)
(* the caller set it and its value is not the field's default, and         *)
(* patch_one never calls repo.update.                                      *)
(***************************************************************************)
C8_PatchForwardsSetNonDefault ==
    call.op = "patch_one" =>
        /\ Count("repo.update") = 0
        /\ \A i \in DOMAIN trace :
              trace[i].ev = "repo.patch" =>
                  \A f \in DOMAIN trace[i].arg :
                      /\ f \in call.data.fields_set
                      /\ call.data[f] # FieldDefault(f)
                      /\ trace[i].arg[f] = call.data[f]

\* patch_one on an existing id, with one field set to a value and the other
\* set to its default.
C8_Witness ==
    /\ call.op = "patch_one"
    /\ LookupFound
    /\ Count("repo.patch") = 1
    /\ call.data.fields_set = {"name", "slug"}
    /\ call.data.name # <<>>
    /\ call.data.slug = <<>>
    /\ DOMAIN trace[Pos("repo.patch")].arg = {"name"}

(***************************************************************************)
(* C9.  get_one returns exactly the item its lookup yields, and fails with *)
(* HTTP 404, message "Not found.", when the lookup yields no record; in    *)
(* neither case does it write, roll back or log an error.                  *)
(***************************************************************************)
C9_GetOne ==
    (call.op = "get_one" /\ (LookupFound \/ LookupEmpty)) =>
        /\ LookupFound =>
              /\ outcome.kind = "return"
              /\ outcome.value = trace[1].res.val
              /\ \E j \in DOMAIN rows : rows[j] = outcome.value.item
        /\ LookupEmpty => EndedNotFound
        /\ Len(trace) = 2
        /\ WritePos = 0
        /\ Count("session.rollback") = 0
        /\ Count("logger.exception") = 0

\* get_one by slug has returned a stored item; and the 404 of a missing id.
C9_Witness ==
    /\ call.op = "get_one"
    /\ call.key = "slug"
    /\ LookupFound
    /\ outcome.kind = "return"
    /\ outcome.value.item.slug = call.item_id

C9_WitnessNotFound ==
    /\ call.op = "get_one"
    /\ LookupEmpty
    /\ EndedNotFound

(***************************************************************************)
(* C10.  A delete_one whose repository delete succeeds logs exactly one    *)
(* informational record, which holds the deleted id, after the delete has  *)
(* returned; one whose repository delete raises logs none.                 *)
(***************************************************************************)
C10_DeleteLogsOnce ==
    call.op = "delete_one" =>
        IF WriteRaised
        THEN Count("logger.info") = 0
        ELSE /\ Count("logger.info") = 1
             /\ Pos("repo.delete") # 0
             /\ Pos("repo.delete") < Pos("logger.info")
             /\ EndsWith(trace[Pos("logger.info")].arg, IntText(call.item_id))

C10_Witness ==
    /\ call.op = "delete_one"
    /\ ~WriteRaised
    /\ outcome.kind = "return"
    /\ outcome.value.some
    /\ Count("logger.info") = 1

=============================================================================
